---- MODULE Spec2Model ----
(***************************************************************************)
(* Model of flight/modules/Sensors/sensors.c (LibrePilot): the periodic    *)
(* SensorsTask, the sample accumulator, the channel handlers, the          *)
(* temperature bias estimators and the settings callback that rebuilds the *)
(* process-wide calibration globals in place.                              *)
(*                                                                         *)
(* Units: temperatures are integers in 1/100 degree, temperature         *)
(* coefficients are integers in units of 1e-10, so that the thresholds     *)
(* 0.1 (extent span) and 1e-9 (coefficient magnitude) are both 10.         *)
(***************************************************************************)
EXTENDS Integers, Sequences, FiniteSets, TLC

\* ---------------------------------------------------------------- bounds
\* Running iterations explored by Spec
MaxIter == 3
\* capacity of a driver queue
MaxQueue == 2
\* samples the drivers enqueue in one run of Spec
MaxProduced == 3
\* settings objects changed in one run of SpecCb
MaxCfg == 1
\* Running iterations explored by SpecCb
CbMaxIter == 1
\* Running iterations explored by SpecAux
AuxMaxIter == 30
\* samples the drivers enqueue in one run of SpecAux
AuxMaxProduced == 2
\* settings objects changed in one run of SpecTemp
MaxTempCfg == 1
\* samples the drivers enqueue in one run of SpecCb
CbMaxProduced == 2
\* ticks explored while the task is halted
MaxFaultTime == 20
\* settings objects rewritten in one run of SpecSettings
MaxSettingsCfg == 1

\* ticks the task may have fallen behind its time base before time stops
\* passing in SpecTime
MaxBusy == 15

\* ------------------------------------------------------- program constants
TEMP_CALIB_INTERVAL == 30
BARO_TEMP_CALIB_INTERVAL == 10
MAX_SENSORS_PER_INSTANCE == 2
\* .1f in 1/100 degree
EXTENT_SPAN_MIN == 10
\* 1e-9f in units of 1e-10
COEFF_EPS == 10
\* uint8_t
U8 == 256
\* mag ODR of AUX_MAG_SKIP
MAG_ODR == 75
MAG_ODR_FLOOR == 76
MAG_ODR_ROUND == 74
\* 44330.0f, metres
ALTITUDE_SCALE == 44330
\* PIOS_CONST_MKS_STD_ATMOSPHERE_F, in the pressure unit of the samples
STD_ATMOSPHERE == 1013

\* a float that may be NaN
FNaN == [nan |-> TRUE, v |-> 0]
Float(x) == [nan |-> FALSE, v |-> x]

Abs(x) == IF x < 0 THEN -x ELSE x

\* ------------------------------------------------------------ sensor types
\* sensor->type & PIOS_SENSORS_TYPE_3AXIS_ACCEL
HasAccel(type) == type \in {"ACCEL", "GYRO_ACCEL"}
\* the gyro bit tested as equality with the gyro-only type
HasGyroOnly(type) == type = "GYRO"
\* sensor->type & PIOS_SENSORS_TYPE_3AXIS_GYRO
HasGyro(type) == type \in {"GYRO", "GYRO_ACCEL"}
\* the 3D test always taken: the baro goes through the mean path too
Is3DAlways(type) == TRUE
\* sensor->type & PIOS_SENSORS_TYPE_3D
Is3D(type) == type # "BARO"

\* the lists PIOS_SENSORS_GetList() may return (driver registration order)
SensorLists ==
    { << [type |-> "GYRO_ACCEL", is_polled |-> FALSE],
         [type |-> "MAG", is_polled |-> TRUE],
         [type |-> "BARO", is_polled |-> TRUE] >>,
      << [type |-> "GYRO", is_polled |-> FALSE],
         [type |-> "ACCEL", is_polled |-> FALSE],
         [type |-> "AUXMAG", is_polled |-> FALSE] >>,
      << [type |-> "ACCEL", is_polled |-> TRUE],
         [type |-> "MAG", is_polled |-> FALSE] >> }

\* PIOS_SENSOR_RATE values explored by Spec
MainRates == {100}

\* PIOS_SENSOR_RATE values explored by SpecAux
AuxRates == {1, 75, 76, 150, 151, 225, 226, 500, 1000}

\* sensor_period_ticks for a rate in Hz and a tick of tick_ms milliseconds:
\* the float quotient converted to uint32_t (truncation)
sensor_period_ticks(rate, tick_ms) == 1000 \div (rate * tick_ms)

\* AUX_MAG_SKIP without the + 74 that rounds the quotient up
AuxMagSkipRoundedDown(rate) ==
    (IF rate < MAG_ODR_FLOOR THEN MAG_ODR_FLOOR ELSE rate) \div MAG_ODR

\* AUX_MAG_SKIP
AUX_MAG_SKIP(rate) ==
    ((IF rate < MAG_ODR_FLOOR THEN MAG_ODR_FLOOR ELSE rate) + MAG_ODR_ROUND) \div MAG_ODR

\* ------------------------------------------------------------- raw samples
Zero3 == <<0, 0, 0>>
Add3(a, b) == <<a[1] + b[1], a[2] + b[2], a[3] + b[3]>>

\* what a 3-axis driver delivers: sensorSample3Axis {count, sample[], temperature}
Samples3(type) ==
    LET n == IF type = "GYRO_ACCEL" THEN 2 ELSE 1
    IN  { [count |-> n, sample |-> << <<1, 2, 3>>, <<4, 5, 6>> >>, temperature |-> 2500],
          [count |-> n, sample |-> << <<3, 0, 1>>, <<2, 2, 2>> >>, temperature |-> 3100] }

\* what the baro driver delivers: sensorSample1Axis {sample, temperature}
Samples1 ==
    { [sample |-> 1013, temperature |-> 2500],
      [sample |-> 0, temperature |-> 3100],
      [sample |-> 50050, temperature |-> 2500] }

\* ---------------------------------------------------- accumulation context
\* raw is not program state: it keeps the samples folded in since the clear
clearContext == [accum |-> <<Zero3, Zero3>>, temperature |-> 0, count |-> 0, raw |-> <<>>]

\* accumulateSamples with = in place of +=
accumulateSamplesOverwrite(ctx, sample) ==
    [accum |-> [i \in 1..MAX_SENSORS_PER_INSTANCE |->
                    IF i <= sample.count THEN sample.sample[i] ELSE ctx.accum[i]],
     temperature |-> sample.temperature,
     count |-> ctx.count + 1,
     raw |-> Append(ctx.raw, sample)]

accumulateSamples(ctx, sample) ==
    [accum |-> [i \in 1..MAX_SENSORS_PER_INSTANCE |->
                    IF i <= sample.count THEN Add3(ctx.accum[i], sample.sample[i])
                    ELSE ctx.accum[i]],
     temperature |-> ctx.temperature + sample.temperature,
     count |-> ctx.count + 1,
     raw |-> Append(ctx.raw, sample)]

\* float mean of an accumulated vector: accum * (inv_count * scales[index]),
\* kept per axis as the exact fraction num/den times the scale of that index;
\* den = 0 (inv_count infinite) makes it NaN or infinite
MeanVec(ctx, index) ==
    [axis \in 1..3 |-> [num |-> ctx.accum[index][axis], den |-> ctx.count, scale |-> index]]

\* (float)temperature * inv_count * 0.01f, in 1/100 degree
MeanTemp(ctx) ==
    IF ctx.count = 0 THEN FNaN ELSE Float(ctx.temperature \div ctx.count)

\* ---------------------------------------------------------- settings store
\* values of the RevoCalibration object
CalValues ==
    << [mag_bias |-> <<0, 0, 0>>, mag_transform |-> "I"],
       [mag_bias |-> <<5, -3, 2>>, mag_transform |-> "M1"] >>

\* values of the AuxMagSettings object
AuxMagValues ==
    << [mag_bias |-> <<0, 0, 0>>, mag_transform |-> "I"],
       [mag_bias |-> <<1, 1, -4>>, mag_transform |-> "M2"] >>

\* values of the AccelGyroSettings object
AgcalValues ==
    << [accel_bias |-> <<0, 0, 0>>, accel_scale |-> <<1, 1, 1>>,
        gyro_bias |-> <<0, 0, 0>>, gyro_scale |-> <<1, 1, 1>>,
        temp_calibrated_extent |-> [min |-> 0, max |-> 0],
        accel_temp_coeff |-> [X |-> 0, Y |-> 0, Z |-> 0],
        gyro_temp_coeff |-> [X |-> 0, Y |-> 0, Z |-> 0, X2 |-> 0, Y2 |-> 0, Z2 |-> 0]],
       [accel_bias |-> <<1, 0, -1>>, accel_scale |-> <<2, 2, 2>>,
        gyro_bias |-> <<0, 1, 0>>, gyro_scale |-> <<1, 1, 3>>,
        temp_calibrated_extent |-> [min |-> 1000, max |-> 3000],
        accel_temp_coeff |-> [X |-> 20, Y |-> 0, Z |-> -30],
        gyro_temp_coeff |-> [X |-> 40, Y |-> 0, Z |-> 0, X2 |-> 0, Y2 |-> 0, Z2 |-> 15]] >>

\* values of the AttitudeSettings object (angles in whole degrees)
AttitudeValues ==
    << [BoardRotation |-> <<0, 0, 0>>, BoardLevelTrim |-> <<0, 0>>],
       [BoardRotation |-> <<0, 0, 90>>, BoardLevelTrim |-> <<2, 0>>] >>

\* values of the RevoSettings baro temperature correction fields
RevoValues ==
    << [poly |-> [a |-> 0, b |-> 0, c |-> 0, d |-> 0], extent |-> [min |-> 0, max |-> 0]],
       [poly |-> [a |-> 50, b |-> 20, c |-> 0, d |-> 0], extent |-> [min |-> 0, max |-> 2800]] >>

SettingsObjects == {"cal", "auxmagcal", "agcal", "attitude", "revo"}

ValuesOf(obj) ==
    CASE obj = "cal" -> CalValues
      [] obj = "auxmagcal" -> AuxMagValues
      [] obj = "agcal" -> AgcalValues
      [] obj = "attitude" -> AttitudeValues
      [] obj = "revo" -> RevoValues

\* the store with every object at its k-th value
StoreAt(k) == [obj \in SettingsObjects |-> ValuesOf(obj)[k]]

\* the store after a settings object is written by another module
UAVObjSet(st, obj, k) == [st EXCEPT ![obj] = ValuesOf(obj)[k]]

\* ------------------------------------------- calibration globals (snapshot)
\* the static initialisers of the globals settingsUpdatedCb writes
SnapInit ==
    [cal |-> [mag_bias |-> Zero3, mag_transform |-> "ZERO"],
     mag_bias |-> Zero3,
     auxmagcal |-> [mag_bias |-> Zero3, mag_transform |-> "ZERO"],
     auxmag_bias |-> Zero3,
     agcal |-> [accel_bias |-> Zero3, accel_scale |-> Zero3,
                gyro_bias |-> Zero3, gyro_scale |-> Zero3,
                temp_calibrated_extent |-> [min |-> 0, max |-> 0],
                accel_temp_coeff |-> [X |-> 0, Y |-> 0, Z |-> 0],
                gyro_temp_coeff |-> [X |-> 0, Y |-> 0, Z |-> 0, X2 |-> 0, Y2 |-> 0, Z2 |-> 0]],
     accel_temp_calibrated |-> FALSE,
     gyro_temp_calibrated |-> FALSE,
     rotate |-> 0,
     R |-> [zero |-> TRUE, rpy |-> Zero3, trimmed |-> FALSE, trim |-> Zero3],
     mag_transform |-> [identity |-> TRUE, left |-> "I", right |-> Zero3, trimmed |-> FALSE, trim |-> Zero3],
     auxmag_transform |-> [identity |-> TRUE, left |-> "I", right |-> Zero3, trimmed |-> FALSE, trim |-> Zero3],
     baroCorrection |-> [a |-> 0, b |-> 0, c |-> 0, d |-> 0],
     baroCorrectionExtent |-> [min |-> 0, max |-> 0],
     baro_temp_correction_enabled |-> FALSE]

AccelTempCalibrated(agcal) ==
    /\ agcal.temp_calibrated_extent.max - agcal.temp_calibrated_extent.min > EXTENT_SPAN_MIN
    /\ \/ Abs(agcal.accel_temp_coeff.X) > COEFF_EPS
       \/ Abs(agcal.accel_temp_coeff.Y) > COEFF_EPS
       \/ Abs(agcal.accel_temp_coeff.Z) > COEFF_EPS

GyroTempCalibrated(agcal) ==
    /\ agcal.temp_calibrated_extent.max - agcal.temp_calibrated_extent.min > EXTENT_SPAN_MIN
    /\ \/ Abs(agcal.gyro_temp_coeff.X) > COEFF_EPS
       \/ Abs(agcal.gyro_temp_coeff.Y) > COEFF_EPS
       \/ Abs(agcal.gyro_temp_coeff.Z) > COEFF_EPS
       \/ Abs(agcal.gyro_temp_coeff.Z2) > COEFF_EPS

BaroTempCorrectionEnabled(poly, extent) ==
    /\ extent.max - extent.min > EXTENT_SPAN_MIN
    /\ \/ Abs(poly.a) > COEFF_EPS
       \/ Abs(poly.b) > COEFF_EPS
       \/ Abs(poly.c) > COEFF_EPS
       \/ Abs(poly.d) > COEFF_EPS

\* fabsf(angle) compared with ZERO_ROT_ANGLE, for whole-degree angles
IsZeroAngle(a) == a = 0

Rotate(att) ==
    IF /\ IsZeroAngle(att.BoardRotation[1])
       /\ IsZeroAngle(att.BoardRotation[2])
       /\ IsZeroAngle(att.BoardRotation[3])
       /\ IsZeroAngle(att.BoardLevelTrim[1])
       /\ IsZeroAngle(att.BoardLevelTrim[2])
    THEN 0 ELSE 1

\* the matrix Quaternion2R leaves in R, kept as the angles that determine it
RotationMatrix(att) ==
    IF ~IsZeroAngle(att.BoardLevelTrim[1]) \/ ~IsZeroAngle(att.BoardLevelTrim[2])
    THEN [zero |-> FALSE, rpy |-> att.BoardRotation, trimmed |-> TRUE,
          trim |-> <<att.BoardLevelTrim[1], att.BoardLevelTrim[2], 0>>]
    ELSE [zero |-> FALSE, rpy |-> att.BoardRotation, trimmed |-> FALSE, trim |-> Zero3]

\* matrix_mult_3x3f(a, r, .), kept as its two factors
MatrixMult(a, r) ==
    [identity |-> FALSE, left |-> a, right |-> r.rpy, trimmed |-> r.trimmed, trim |-> r.trim]

\* number of steps (global writes) of one settingsUpdatedCb run
CbSteps == 11

\* the globals after step k of settingsUpdatedCb, reading the store st
settingsUpdatedCbStep(k, s, st) ==
    CASE k = 1 -> [s EXCEPT !.cal = st.cal, !.mag_bias = st.cal.mag_bias]
      [] k = 2 -> [s EXCEPT !.auxmagcal = st.auxmagcal, !.auxmag_bias = st.auxmagcal.mag_bias]
      [] k = 3 -> [s EXCEPT !.agcal = st.agcal]
      [] k = 4 -> [s EXCEPT !.accel_temp_calibrated = AccelTempCalibrated(s.agcal)]
      [] k = 5 -> [s EXCEPT !.gyro_temp_calibrated = GyroTempCalibrated(s.agcal)]
      [] k = 6 -> [s EXCEPT !.rotate = Rotate(st.attitude), !.R = RotationMatrix(st.attitude)]
      [] k = 7 -> [s EXCEPT !.mag_transform = MatrixMult(s.cal.mag_transform, s.R)]
      [] k = 8 -> [s EXCEPT !.auxmag_transform = MatrixMult(s.auxmagcal.mag_transform, s.R)]
      [] k = 9 -> [s EXCEPT !.baroCorrection = st.revo.poly]
      [] k = 10 -> [s EXCEPT !.baroCorrectionExtent = st.revo.extent]
      [] k = 11 -> [s EXCEPT !.baro_temp_correction_enabled =
                        BaroTempCorrectionEnabled(s.baroCorrection, s.baroCorrectionExtent)]

RECURSIVE CbRun(_, _, _)
\* steps k..CbSteps of settingsUpdatedCb run without interruption
CbRun(k, s, st) ==
    IF k > CbSteps THEN s ELSE CbRun(k + 1, settingsUpdatedCbStep(k, s, st), st)

\* a whole settingsUpdatedCb call that nothing interleaves with
settingsUpdatedCb(s, st) == CbRun(1, s, st)

\* ------------------------------------------------ temperature bias estimators
\* LPF coefficients, as fractions
temp_alpha_gyro_accel == [num |-> 1, den |-> 17]
temp_alpha_baro == [num |-> 1, den |-> 5]

\* Lpf without the + filtered
LpfDeltaOnly(alpha, temperature, filtered) ==
    IF temperature.nan \/ filtered.nan THEN FNaN
    ELSE Float((alpha.num * (temperature.v - filtered.v)) \div alpha.den)

\* alpha * (temperature - filtered) + filtered
Lpf(alpha, temperature, filtered) ==
    IF temperature.nan \/ filtered.nan THEN FNaN
    ELSE Float(((alpha.num * (temperature.v - filtered.v)) \div alpha.den) + filtered.v)

\* boundf(val, boundary1, boundary2) of mathmisc.h: clamps val between the two
\* boundaries whichever order they come in; a NaN val gives the lower one
boundf(val, boundary1, boundary2) ==
    LET lo == IF boundary1 > boundary2 THEN boundary2 ELSE boundary1
        hi == IF boundary1 > boundary2 THEN boundary1 ELSE boundary2
    IN  IF val.nan \/ val.v < lo THEN lo
        ELSE IF val.v > hi THEN hi
        ELSE val.v

\* the static initialisers of a channel's temperature tracking state
\* (temperature, bias, countdown). since is not program state: it counts the
\* update calls since the last bias recompute, and is -1 when there was none
\* or when a call since then found the calibration disabled.
TempInit(bias) == [temperature |-> FNaN, bias |-> bias, count |-> 0, since |-> -1]

Since(ts, enabled, recompute) ==
    IF ~enabled THEN -1
    ELSE IF recompute THEN 0
    ELSE IF ts.since = -1 THEN -1
    ELSE ts.since + 1

TempsInit == [accel |-> TempInit(Zero3), gyro |-> TempInit(Zero3), baro |-> TempInit(0)]

\* updateAccelTempBias that does not count the recomputing call itself
updateAccelTempBiasSkipsDecrement(ts, temperature, s) ==
    LET seeded == IF ts.temperature.nan THEN temperature ELSE ts.temperature
        filtered == Lpf(temp_alpha_gyro_accel, temperature, seeded)
        recompute == s.accel_temp_calibrated /\ ts.count = 0
        ctemp == boundf(filtered, s.agcal.temp_calibrated_extent.max,
                        s.agcal.temp_calibrated_extent.min)
    IN  [temperature |-> filtered,
         bias |-> IF recompute
                  THEN <<s.agcal.accel_temp_coeff.X * ctemp,
                         s.agcal.accel_temp_coeff.Y * ctemp,
                         s.agcal.accel_temp_coeff.Z * ctemp>>
                  ELSE ts.bias,
         count |-> IF recompute THEN TEMP_CALIB_INTERVAL ELSE (ts.count - 1) % U8,
         since |-> Since(ts, s.accel_temp_calibrated, recompute)]

updateAccelTempBias(ts, temperature, s) ==
    LET seeded == IF ts.temperature.nan THEN temperature ELSE ts.temperature
        filtered == Lpf(temp_alpha_gyro_accel, temperature, seeded)
        recompute == s.accel_temp_calibrated /\ ts.count = 0
        ctemp == boundf(filtered, s.agcal.temp_calibrated_extent.max,
                        s.agcal.temp_calibrated_extent.min)
    IN  [temperature |-> filtered,
         bias |-> IF recompute
                  THEN <<s.agcal.accel_temp_coeff.X * ctemp,
                         s.agcal.accel_temp_coeff.Y * ctemp,
                         s.agcal.accel_temp_coeff.Z * ctemp>>
                  ELSE ts.bias,
         count |-> ((IF recompute THEN TEMP_CALIB_INTERVAL ELSE ts.count) - 1) % U8,
         since |-> Since(ts, s.accel_temp_calibrated, recompute)]

\* updateGyroTempBias whose countdown stands still while calibration is off
updateGyroTempBiasCountsWhenEnabled(ts, temperature, s) ==
    LET seeded == IF ts.temperature.nan THEN temperature ELSE ts.temperature
        filtered == Lpf(temp_alpha_gyro_accel, temperature, seeded)
        recompute == s.gyro_temp_calibrated /\ ts.count = 0
        ctemp == boundf(filtered, s.agcal.temp_calibrated_extent.max,
                        s.agcal.temp_calibrated_extent.min)
        c == s.agcal.gyro_temp_coeff
    IN  [temperature |-> filtered,
         bias |-> IF recompute
                  THEN <<(c.X + c.X2 * ctemp) * ctemp,
                         (c.Y + c.Y2 * ctemp) * ctemp,
                         (c.Z + c.Z2 * ctemp) * ctemp>>
                  ELSE ts.bias,
         count |-> IF s.gyro_temp_calibrated
                   THEN ((IF recompute THEN TEMP_CALIB_INTERVAL ELSE ts.count) - 1) % U8
                   ELSE ts.count,
         since |-> Since(ts, s.gyro_temp_calibrated, recompute)]

updateGyroTempBias(ts, temperature, s) ==
    LET seeded == IF ts.temperature.nan THEN temperature ELSE ts.temperature
        filtered == Lpf(temp_alpha_gyro_accel, temperature, seeded)
        recompute == s.gyro_temp_calibrated /\ ts.count = 0
        ctemp == boundf(filtered, s.agcal.temp_calibrated_extent.max,
                        s.agcal.temp_calibrated_extent.min)
        c == s.agcal.gyro_temp_coeff
    IN  [temperature |-> filtered,
         bias |-> IF recompute
                  THEN <<(c.X + c.X2 * ctemp) * ctemp,
                         (c.Y + c.Y2 * ctemp) * ctemp,
                         (c.Z + c.Z2 * ctemp) * ctemp>>
                  ELSE ts.bias,
         count |-> ((IF recompute THEN TEMP_CALIB_INTERVAL ELSE ts.count) - 1) % U8,
         since |-> Since(ts, s.gyro_temp_calibrated, recompute)]

\* updateBaroTempBias that evaluates the polynomial at the filtered
\* temperature without bounding it
updateBaroTempBiasUnbounded(ts, temperature, s) ==
    LET seeded == IF ts.temperature.nan THEN temperature ELSE ts.temperature
        filtered == Lpf(temp_alpha_baro, temperature, seeded)
        recompute == s.baro_temp_correction_enabled /\ ts.count = 0
        ctemp == filtered.v
        p == s.baroCorrection
    IN  [temperature |-> filtered,
         bias |-> IF recompute
                  THEN p.a + ((p.d * ctemp + p.c) * ctemp + p.b) * ctemp
                  ELSE ts.bias,
         count |-> ((IF recompute THEN BARO_TEMP_CALIB_INTERVAL ELSE ts.count) - 1) % U8,
         since |-> Since(ts, s.baro_temp_correction_enabled, recompute)]

\* updateBaroTempBias whose countdown stays at zero instead of wrapping
updateBaroTempBiasHoldsAtZero(ts, temperature, s) ==
    LET seeded == IF ts.temperature.nan THEN temperature ELSE ts.temperature
        filtered == Lpf(temp_alpha_baro, temperature, seeded)
        recompute == s.baro_temp_correction_enabled /\ ts.count = 0
        ctemp == boundf(filtered, s.baroCorrectionExtent.max, s.baroCorrectionExtent.min)
        p == s.baroCorrection
    IN  [temperature |-> filtered,
         bias |-> IF recompute
                  THEN p.a + ((p.d * ctemp + p.c) * ctemp + p.b) * ctemp
                  ELSE ts.bias,
         count |-> IF recompute THEN BARO_TEMP_CALIB_INTERVAL - 1
                   ELSE IF ts.count = 0 THEN 0 ELSE ts.count - 1,
         since |-> Since(ts, s.baro_temp_correction_enabled, recompute)]

updateBaroTempBias(ts, temperature, s) ==
    LET seeded == IF ts.temperature.nan THEN temperature ELSE ts.temperature
        filtered == Lpf(temp_alpha_baro, temperature, seeded)
        recompute == s.baro_temp_correction_enabled /\ ts.count = 0
        ctemp == boundf(filtered, s.baroCorrectionExtent.max, s.baroCorrectionExtent.min)
        p == s.baroCorrection
    IN  [temperature |-> filtered,
         bias |-> IF recompute
                  THEN p.a + ((p.d * ctemp + p.c) * ctemp + p.b) * ctemp
                  ELSE ts.bias,
         count |-> ((IF recompute THEN BARO_TEMP_CALIB_INTERVAL ELSE ts.count) - 1) % U8,
         since |-> Since(ts, s.baro_temp_correction_enabled, recompute)]

\* ----------------------------------------------------------------- handlers
\* an event of the task visible outside it: a call of an external collaborator,
\* with the instance it is made for (0: none) and its argument
Ev(name, inst, arg) == [ev |-> name, sensor |-> inst, arg |-> arg]

\* the calibration globals each handler reads
AccelView(s) == [h |-> "handleAccel",
                 view |-> <<s.agcal, s.accel_temp_calibrated, s.rotate, s.R>>]
GyroView(s) == [h |-> "handleGyro",
                view |-> <<s.agcal, s.gyro_temp_calibrated, s.rotate, s.R>>]
MagView(s) == [h |-> "handleMag", view |-> <<s.mag_bias, s.mag_transform>>]
AuxMagView(s) == [h |-> "handleAuxMag", view |-> <<s.auxmag_bias, s.auxmag_transform>>]
BaroView(s) == [h |-> "handleBaro",
                view |-> <<s.baro_temp_correction_enabled, s.baroCorrection,
                           s.baroCorrectionExtent>>]

\* Each handler gives the temperature states it leaves, the records it
\* publishes (kept as the operands of the float expression) and what it read.
handleAccel(samples, temperature, tmps, s) ==
    LET ts == updateAccelTempBias(tmps.accel, temperature, s)
    IN  [temps |-> [tmps EXCEPT !.accel = ts],
         pub |-> <<Ev("handleAccel", 0, [samples |-> samples, temperature |-> temperature]),
                   Ev("AccelSensorSet", 0,
                      [samples |-> samples, bias |-> s.agcal.accel_bias,
                       scale |-> s.agcal.accel_scale, temp_bias |-> ts.bias,
                       R |-> s.R, temperature |-> temperature])>>,
         obs |-> <<AccelView(s)>>]

handleGyro(samples, temperature, tmps, s) ==
    LET ts == updateGyroTempBias(tmps.gyro, temperature, s)
    IN  [temps |-> [tmps EXCEPT !.gyro = ts],
         pub |-> <<Ev("handleGyro", 0, [samples |-> samples, temperature |-> temperature]),
                   Ev("GyroSensorSet", 0,
                      [samples |-> samples, bias |-> s.agcal.gyro_bias,
                       scale |-> s.agcal.gyro_scale, temp_bias |-> ts.bias,
                       R |-> s.R, temperature |-> temperature])>>,
         obs |-> <<GyroView(s)>>]

handleMag(samples, temperature, tmps, s) ==
    [temps |-> tmps,
     pub |-> <<Ev("handleMag", 0, [samples |-> samples, temperature |-> temperature]),
               Ev("MagSensorSet", 0,
                  [samples |-> samples, bias |-> s.mag_bias,
                   transform |-> s.mag_transform, temperature |-> temperature])>>,
     obs |-> <<MagView(s)>>]

handleAuxMag(samples, tmps, s) ==
    [temps |-> tmps,
     pub |-> <<Ev("handleAuxMag", 0, [samples |-> samples]),
               Ev("AuxMagSensorSet", 0,
                  [samples |-> samples, bias |-> s.auxmag_bias,
                   transform |-> s.auxmag_transform, Status |-> "OK"])>>,
     obs |-> <<AuxMagView(s)>>]

\* 44330.0f * (1.0f - powf(pressure / PIOS_CONST_MKS_STD_ATMOSPHERE_F,
\* 1.0f / 5.255f)), in metres. powf of a negative base with a fractional
\* exponent is NaN; powf(0, y) is 0 for y > 0, which gives 44330 exactly; at
\* the standard atmosphere powf is 1, which gives 0. Between and beyond the
\* two the value is finite and falls as the pressure rises: it is kept by a
\* linear stand-in with these two exact points.
Altitude(pressure) ==
    IF pressure < 0 THEN FNaN
    ELSE Float(ALTITUDE_SCALE - ALTITUDE_SCALE * (pressure \div STD_ATMOSPHERE)
                              - (ALTITUDE_SCALE * (pressure % STD_ATMOSPHERE)) \div STD_ATMOSPHERE)

handleBaro(sample, temperature, tmps, s) ==
    LET ts == updateBaroTempBias(tmps.baro, temperature, s)
        pressure == sample - ts.bias
        altitude == Altitude(pressure)
    IN  [temps |-> [tmps EXCEPT !.baro = ts],
         pub |-> <<Ev("handleBaro", 0, [samples |-> sample, temperature |-> temperature,
                                        pressure |-> pressure, altitude |-> altitude])>>
                 \o (IF ~altitude.nan
                     THEN <<Ev("BaroSensorSet", 0,
                               [Altitude |-> altitude, Temperature |-> temperature,
                                Pressure |-> pressure])>>
                     ELSE <<>>),
         obs |-> <<BaroView(s)>>]

NoHandler(tmps) == [temps |-> tmps, pub |-> <<>>, obs |-> <<>>]

processSamples3d(ctx, type, tmps, s) ==
    LET temperature == MeanTemp(ctx)
        first == IF type = "MAG" THEN handleMag(MeanVec(ctx, 1), temperature, tmps, s)
                 ELSE IF type = "AUXMAG" THEN handleAuxMag(MeanVec(ctx, 1), tmps, s)
                 ELSE IF HasAccel(type) THEN handleAccel(MeanVec(ctx, 1), temperature, tmps, s)
                 ELSE NoHandler(tmps)
        index == IF type = "GYRO_ACCEL" THEN 2 ELSE 1
        second == IF HasGyro(type)
                  THEN handleGyro(MeanVec(ctx, index), temperature, first.temps, s)
                  ELSE NoHandler(first.temps)
    IN  [temps |-> second.temps,
         pub |-> <<Ev("processSamples3d", 0, ctx.count),
                   Ev("sensor_context", 0, [ctx |-> ctx, type |-> type])>>
                 \o first.pub \o second.pub,
         obs |-> first.obs \o second.obs]

processSamples1d(sample, type, tmps, s) ==
    LET r == handleBaro(sample.sample, Float(sample.temperature), tmps, s)
    IN  [temps |-> r.temps,
         pub |-> <<Ev("processSamples1d", 0, 1)>> \o r.pub,
         obs |-> r.obs]

\* -------------------------------------------------------------------- state
VARIABLES
    PIOS_SENSOR_RATE,   \* sensor rate of the build, Hz
    portTICK_RATE_MS,   \* scheduler tick of the build, ms
    sensors_list,       \* PIOS_SENSORS_GetList()
    pc,                 \* position of SensorsTask
    sensor,             \* LL_FOREACH cursor, an index into sensors_list
    sensors_test,       \* SensorsTask local
    tested,             \* what PIOS_SENSORS_Test returned, per instance so far
    count,              \* SensorsTask local (uint8_t)
    error,              \* SensorsTask local
    aux_mag_skip,       \* SensorsTask local (uint8_t)
    reset_counter,      \* SensorsTask local
    lastSysTime,        \* SensorsTask local
    sensor_context,     \* SensorsTask local
    temps,              \* accel/gyro/baro temperature, bias and countdown
    snap,               \* the calibration globals
    now,                \* xTaskGetTickCount()
    alarm,              \* state of SYSTEMALARMS_ALARM_SENSORS
    alarm_sets,         \* AlarmsSet calls so far
    queues,             \* per instance, the driver queue
    resets,             \* per instance, PIOS_SENSOR_Reset calls so far
    store,              \* the settings objects
    cbPending,          \* settings events queued for settingsUpdatedCb
    cbpc,               \* steps done by the settingsUpdatedCb run in progress
    log,                \* collaborator calls of the current iteration, in order
    observed,           \* what the handlers of the current iteration read
    built,              \* the globals as left by each completed settingsUpdatedCb
    builtAtStart,       \* built at the start of the current traversal
    iter,               \* Running iterations started
    prevError,          \* error as tested at the top of the current iteration
    produced,           \* samples enqueued so far
    changes             \* settings changes so far

taskVars == <<pc, sensor, sensors_test, tested, count, error, aux_mag_skip, reset_counter,
              lastSysTime, sensor_context, iter, prevError>>
buildVars == <<PIOS_SENSOR_RATE, portTICK_RATE_MS, sensors_list>>
cbVars == <<store, cbPending, cbpc, changes>>
vars == <<buildVars, taskVars, temps, snap, now, alarm, alarm_sets, queues, resets,
          cbVars, log, observed, built, builtAtStart, produced>>

Period == sensor_period_ticks(PIOS_SENSOR_RATE, portTICK_RATE_MS)

Instances == DOMAIN sensors_list

\* the state when SensorsTask is created, for the builds, sensor lists and
\* settings explored
InitWith(rates, lists, stores) ==
    /\ PIOS_SENSOR_RATE \in rates
    /\ portTICK_RATE_MS = 1
    /\ sensors_list \in lists
    /\ pc = "start"
    /\ sensor = 1
    /\ sensors_test = TRUE
    /\ tested = <<>>
    /\ count = 0
    /\ error = FALSE
    /\ aux_mag_skip = 0
    /\ reset_counter = 0
    /\ lastSysTime = 0
    /\ sensor_context = clearContext
    /\ temps = TempsInit
    /\ snap = SnapInit
    /\ now = 0
    /\ alarm = "UNINITIALISED"
    /\ alarm_sets = 0
    /\ queues = [i \in DOMAIN sensors_list |-> <<>>]
    /\ resets = [i \in DOMAIN sensors_list |-> 0]
    /\ store \in stores
    /\ cbPending = 0
    /\ cbpc = 0
    /\ log = <<>>
    /\ observed = <<>>
    /\ built = {}
    /\ builtAtStart = {}
    /\ iter = 0
    /\ prevError = FALSE
    /\ produced = 0
    /\ changes = 0

Init == InitWith(MainRates, SensorLists, {StoreAt(1), StoreAt(2)})

\* ------------------------------------------------------------- SensorsTask
\* TaskStart without its call of settingsUpdatedCb
TaskStartNoRebuild ==
    /\ pc = "start"
    /\ alarm' = "OK"
    /\ sensors_test' = TRUE
    /\ tested' = <<>>
    /\ count' = 0
    /\ sensor' = 1
    /\ log' = <<Ev("AlarmsClear", 0, "OK")>>
    /\ pc' = "test"
    /\ UNCHANGED <<buildVars, error, aux_mag_skip, reset_counter, lastSysTime,
                   sensor_context, iter, prevError, temps, now, alarm_sets, queues,
                   resets, cbVars, observed, builtAtStart, produced, snap, built>>

\* AlarmsClear; settingsUpdatedCb(NULL); the setup of the self-test loop
TaskStart ==
    /\ pc = "start"
    /\ alarm' = "OK"
    /\ snap' = settingsUpdatedCb(snap, store)
    /\ built' = built \cup {snap'}
    /\ sensors_test' = TRUE
    /\ tested' = <<>>
    /\ count' = 0
    /\ sensor' = 1
    /\ log' = <<Ev("AlarmsClear", 0, "OK")>>
    /\ pc' = "test"
    /\ UNCHANGED <<buildVars, error, aux_mag_skip, reset_counter, lastSysTime,
                   sensor_context, iter, prevError, temps, now, alarm_sets, queues,
                   resets, cbVars, observed, builtAtStart, produced>>

\* TestSensor with sensors_test = in place of sensors_test &=
TestSensorOverwrite ==
    /\ pc = "test"
    /\ sensor \in Instances
    /\ \E ok \in BOOLEAN :
        /\ sensors_test' = ok
        /\ tested' = Append(tested, ok)
        /\ log' = log \o <<Ev("RELOAD_WDG", 0, 0), Ev("PIOS_SENSORS_Test", sensor, ok)>>
    /\ count' = (count + 1) % U8
    /\ sensor' = sensor + 1
    /\ UNCHANGED <<buildVars, pc, error, aux_mag_skip, reset_counter, lastSysTime,
                   sensor_context, iter, prevError, temps, snap, now, alarm,
                   alarm_sets, queues, resets, cbVars, observed, built,
                   builtAtStart, produced>>

\* one pass of the self-test loop
TestSensor ==
    /\ pc = "test"
    /\ sensor \in Instances
    /\ \E ok \in BOOLEAN :
        /\ sensors_test' = (sensors_test /\ ok)
        /\ tested' = Append(tested, ok)
        /\ log' = log \o <<Ev("RELOAD_WDG", 0, 0), Ev("PIOS_SENSORS_Test", sensor, ok)>>
    /\ count' = (count + 1) % U8
    /\ sensor' = sensor + 1
    /\ UNCHANGED <<buildVars, pc, error, aux_mag_skip, reset_counter, lastSysTime,
                   sensor_context, iter, prevError, temps, snap, now, alarm,
                   alarm_sets, queues, resets, cbVars, observed, built,
                   builtAtStart, produced>>

\* after the self-test loop: the alarm and the halt, or the entry into the
\* main loop
TestsDone ==
    /\ pc = "test"
    /\ sensor \notin Instances
    /\ count # 0
    /\ IF ~sensors_test
       THEN /\ alarm' = "CRITICAL"
            /\ alarm_sets' = alarm_sets + 1
            /\ log' = log \o <<Ev("RELOAD_WDG", 0, 0), Ev("AlarmsSet", 0, "CRITICAL")>>
            /\ pc' = "fault"
            /\ UNCHANGED <<lastSysTime, reset_counter>>
       ELSE /\ lastSysTime' = now
            /\ reset_counter' = 0
            /\ log' = log \o <<Ev("RELOAD_WDG", 0, 0)>>
            /\ pc' = "loop"
            /\ UNCHANGED <<alarm, alarm_sets>>
    /\ UNCHANGED <<buildVars, sensor, sensors_test, tested, count, error, aux_mag_skip,
                   sensor_context, iter, prevError, temps, snap, now, queues,
                   resets, cbVars, observed, built, builtAtStart, produced>>

\* while (1) vTaskDelay(10)
HaltDelay ==
    /\ pc = "fault"
    /\ now < MaxFaultTime
    /\ now' = now + 10
    /\ UNCHANGED <<buildVars, taskVars, temps, snap, alarm, alarm_sets, queues,
                   resets, cbVars, log, observed, built, builtAtStart, produced>>

\* a stall alarm at warning severity
StallAlarmSeverityWarning == "WARNING"

\* the severity of the AlarmsSet that follows a stall
StallAlarmSeverity == "CRITICAL"

\* NextAlarm with the two branches exchanged
NextAlarmInverted(err) == IF err THEN "OK" ELSE "CRITICAL"

\* the alarm after the if (error) ... else ... at the top of the loop
NextAlarm(err) == IF err THEN StallAlarmSeverity ELSE "OK"

\* top of the main loop up to the start of the traversal, explored for the
\* first maxIter iterations
LoopHeadUpTo(maxIter) ==
    /\ pc = "loop"
    /\ iter < maxIter
    /\ IF error
       THEN /\ lastSysTime' = now + Period
            /\ now' = now + Period
            /\ alarm_sets' = alarm_sets + 1
            /\ log' = <<Ev("RELOAD_WDG", 0, 0), Ev("vTaskDelayUntil", 0, Period),
                        Ev("AlarmsSet", 0, NextAlarm(error))>>
       ELSE /\ log' = <<Ev("AlarmsClear", 0, NextAlarm(error))>>
            /\ UNCHANGED <<lastSysTime, now, alarm_sets>>
    /\ alarm' = NextAlarm(error)
    /\ error' = FALSE
    /\ prevError' = error
    /\ sensor_context' = clearContext
    /\ aux_mag_skip' = ((aux_mag_skip + 1) % AUX_MAG_SKIP(PIOS_SENSOR_RATE)) % U8
    /\ sensor' = 1
    /\ iter' = iter + 1
    /\ observed' = <<>>
    /\ builtAtStart' = built
    /\ pc' = "visit"
    /\ UNCHANGED <<buildVars, sensors_test, tested, count, reset_counter, temps, snap,
                   queues, resets, cbVars, built, produced>>

\* every instance taken as primary
IsPrimaryAny(i) == TRUE

\* bool is_primary = (sensor->type & PIOS_SENSORS_TYPE_3AXIS_ACCEL)
IsPrimary(i) == HasAccel(sensors_list[i].type)

\* sensor->type != AUXMAG || aux_mag_skip == 0
Processed(i) == sensors_list[i].type # "AUXMAG" \/ aux_mag_skip = 0

\* the test of sensor_context.count left out
HasSamplesAlways(ctx) == TRUE

\* if (sensor_context.count)
HasSamples(ctx) == ctx.count # 0

\* the timeout without the test of sensor_context.count
ReceiveTimeoutIgnoresCount(i) == IF IsPrimary(i) THEN Period ELSE 0

\* the timeout of the next xQueueReceive on instance i
ReceiveTimeout(i) == IF IsPrimary(i) /\ sensor_context.count # 0 THEN 0
                     ELSE IF IsPrimary(i) THEN Period ELSE 0

\* an aux-mag instance outside its cycle
SkipSensor ==
    /\ pc = "visit"
    /\ sensor \in Instances
    /\ ~Processed(sensor)
    /\ sensor' = sensor + 1
    /\ UNCHANGED <<buildVars, pc, sensors_test, tested, count, error, aux_mag_skip,
                   reset_counter, lastSysTime, sensor_context, iter, prevError,
                   temps, snap, now, alarm, alarm_sets, queues, resets, cbVars, log,
                   observed, built, builtAtStart, produced>>

\* xQueueReceive returns pdTRUE: the sample is accumulated
QueueReceive ==
    /\ pc = "visit"
    /\ sensor \in Instances
    /\ Processed(sensor)
    /\ ~sensors_list[sensor].is_polled
    /\ queues[sensor] # <<>>
    /\ sensor_context' = accumulateSamples(sensor_context, Head(queues[sensor]))
    /\ queues' = [queues EXCEPT ![sensor] = Tail(@)]
    /\ log' = log \o <<Ev("xQueueReceive", sensor, ReceiveTimeout(sensor))>>
    /\ UNCHANGED <<buildVars, pc, sensor, sensors_test, tested, count, error, aux_mag_skip,
                   reset_counter, lastSysTime, iter, prevError, temps, snap, now,
                   alarm, alarm_sets, resets, cbVars, observed, built, builtAtStart,
                   produced>>

\* QueueDrained that treats a stall as fatal: the task halts as it does
\* after a failed self-test
QueueDrainedHaltsOnStall ==
    /\ pc = "visit"
    /\ sensor \in Instances
    /\ Processed(sensor)
    /\ ~sensors_list[sensor].is_polled
    /\ queues[sensor] = <<>>
    /\ now' = now + ReceiveTimeout(sensor)
    /\ IF HasSamples(sensor_context)
       THEN LET r == processSamples3d(sensor_context, sensors_list[sensor].type, temps, snap)
            IN  /\ temps' = r.temps
                /\ log' = log \o <<Ev("xQueueReceive", sensor, ReceiveTimeout(sensor))>> \o r.pub
                /\ observed' = observed \o r.obs
                /\ sensor_context' = clearContext
                /\ UNCHANGED <<resets, reset_counter, error, pc>>
       ELSE IF IsPrimary(sensor)
       THEN /\ resets' = [resets EXCEPT ![sensor] = @ + 1]
            /\ reset_counter' = reset_counter + 1
            /\ error' = TRUE
            /\ pc' = "fault"
            /\ log' = log \o <<Ev("xQueueReceive", sensor, ReceiveTimeout(sensor)),
                               Ev("PIOS_SENSOR_Reset", sensor, 0)>>
            /\ UNCHANGED <<temps, observed, sensor_context>>
       ELSE /\ log' = log \o <<Ev("xQueueReceive", sensor, ReceiveTimeout(sensor))>>
            /\ UNCHANGED <<temps, observed, sensor_context, resets, reset_counter, error, pc>>
    /\ sensor' = sensor + 1
    /\ UNCHANGED <<buildVars, sensors_test, tested, count, aux_mag_skip, lastSysTime,
                   iter, prevError, snap, alarm, alarm_sets, queues, cbVars, built,
                   builtAtStart, produced>>

\* xQueueReceive finds the queue empty (after its timeout, if it has one):
\* the drain loop ends and the instance is processed, or the stall is flagged
QueueDrained ==
    /\ pc = "visit"
    /\ sensor \in Instances
    /\ Processed(sensor)
    /\ ~sensors_list[sensor].is_polled
    /\ queues[sensor] = <<>>
    /\ now' = now + ReceiveTimeout(sensor)
    /\ IF HasSamples(sensor_context)
       THEN LET r == processSamples3d(sensor_context, sensors_list[sensor].type, temps, snap)
            IN  /\ temps' = r.temps
                /\ log' = log \o <<Ev("xQueueReceive", sensor, ReceiveTimeout(sensor))>> \o r.pub
                /\ observed' = observed \o r.obs
                /\ sensor_context' = clearContext
                /\ UNCHANGED <<resets, reset_counter, error>>
       ELSE IF IsPrimary(sensor)
       THEN /\ resets' = [resets EXCEPT ![sensor] = @ + 1]
            /\ reset_counter' = reset_counter + 1
            /\ error' = TRUE
            /\ log' = log \o <<Ev("xQueueReceive", sensor, ReceiveTimeout(sensor)),
                               Ev("PIOS_SENSOR_Reset", sensor, 0)>>
            /\ UNCHANGED <<temps, observed, sensor_context>>
       ELSE /\ log' = log \o <<Ev("xQueueReceive", sensor, ReceiveTimeout(sensor))>>
            /\ UNCHANGED <<temps, observed, sensor_context, resets, reset_counter, error>>
    /\ sensor' = sensor + 1
    /\ UNCHANGED <<buildVars, pc, sensors_test, tested, count, aux_mag_skip, lastSysTime,
                   iter, prevError, snap, alarm, alarm_sets, queues, cbVars, built,
                   builtAtStart, produced>>

\* PollSensor without the clearContext that follows the processing
PollSensorNoClear ==
    /\ pc = "visit"
    /\ sensor \in Instances
    /\ Processed(sensor)
    /\ sensors_list[sensor].is_polled
    /\ \E ready \in BOOLEAN :
        IF ready
        THEN \E sample \in (IF Is3D(sensors_list[sensor].type)
                            THEN Samples3(sensors_list[sensor].type) ELSE Samples1) :
            LET r == IF Is3D(sensors_list[sensor].type)
                     THEN processSamples3d(accumulateSamples(sensor_context, sample),
                                           sensors_list[sensor].type, temps, snap)
                     ELSE processSamples1d(sample, sensors_list[sensor].type, temps, snap)
            IN  /\ temps' = r.temps
                /\ log' = log \o <<Ev("PIOS_SENSORS_Poll", sensor, ready),
                                   Ev("PIOS_SENSOR_Fetch", sensor, 0)>> \o r.pub
                /\ observed' = observed \o r.obs
                /\ sensor_context' = IF Is3D(sensors_list[sensor].type)
                                     THEN accumulateSamples(sensor_context, sample)
                                     ELSE sensor_context
        ELSE /\ log' = log \o <<Ev("PIOS_SENSORS_Poll", sensor, ready)>>
             /\ UNCHANGED <<temps, observed, sensor_context>>
    /\ sensor' = sensor + 1
    /\ UNCHANGED <<buildVars, pc, sensors_test, tested, count, error, aux_mag_skip,
                   reset_counter, lastSysTime, iter, prevError, snap, now, alarm,
                   alarm_sets, queues, resets, cbVars, built, builtAtStart, produced>>

\* a polled instance: PIOS_SENSORS_Poll, and the fetch and processing if it
\* reports data
PollSensor ==
    /\ pc = "visit"
    /\ sensor \in Instances
    /\ Processed(sensor)
    /\ sensors_list[sensor].is_polled
    /\ \E ready \in BOOLEAN :
        IF ready
        THEN \E sample \in (IF Is3D(sensors_list[sensor].type)
                            THEN Samples3(sensors_list[sensor].type) ELSE Samples1) :
            LET r == IF Is3D(sensors_list[sensor].type)
                     THEN processSamples3d(accumulateSamples(sensor_context, sample),
                                           sensors_list[sensor].type, temps, snap)
                     ELSE processSamples1d(sample, sensors_list[sensor].type, temps, snap)
            IN  /\ temps' = r.temps
                /\ log' = log \o <<Ev("PIOS_SENSORS_Poll", sensor, ready),
                                   Ev("PIOS_SENSOR_Fetch", sensor, 0)>> \o r.pub
                /\ observed' = observed \o r.obs
                /\ sensor_context' = clearContext
        ELSE /\ log' = log \o <<Ev("PIOS_SENSORS_Poll", sensor, ready)>>
             /\ UNCHANGED <<temps, observed, sensor_context>>
    /\ sensor' = sensor + 1
    /\ UNCHANGED <<buildVars, pc, sensors_test, tested, count, error, aux_mag_skip,
                   reset_counter, lastSysTime, iter, prevError, snap, now, alarm,
                   alarm_sets, queues, resets, cbVars, built, builtAtStart, produced>>

\* vTaskDelayUntil(&lastSysTime, period): the wait and the new time base
DelayUntilWait == IF lastSysTime + Period > now THEN lastSysTime + Period - now ELSE 0

\* IterationEnd without its RELOAD_WDG
IterationEndNoWdg ==
    /\ pc = "visit"
    /\ sensor \notin Instances
    /\ log' = log \o <<Ev("vTaskDelayUntil", 0, DelayUntilWait)>>
    /\ now' = now + DelayUntilWait
    /\ lastSysTime' = lastSysTime + Period
    /\ pc' = "loop"
    /\ UNCHANGED <<buildVars, sensor, sensors_test, tested, count, error, aux_mag_skip,
                   reset_counter, sensor_context, iter, prevError, temps, snap,
                   alarm, alarm_sets, queues, resets, cbVars, observed, built,
                   builtAtStart, produced>>

\* IterationEnd with a relative sleep, vTaskDelay(sensor_period_ticks)
IterationEndRelativeSleep ==
    /\ pc = "visit"
    /\ sensor \notin Instances
    /\ log' = log \o <<Ev("RELOAD_WDG", 0, 0), Ev("vTaskDelay", 0, Period)>>
    /\ now' = now + Period
    /\ lastSysTime' = now + Period
    /\ pc' = "loop"
    /\ UNCHANGED <<buildVars, sensor, sensors_test, tested, count, error, aux_mag_skip,
                   reset_counter, sensor_context, iter, prevError, temps, snap,
                   alarm, alarm_sets, queues, resets, cbVars, observed, built,
                   builtAtStart, produced>>

\* end of the traversal: RELOAD_WDG and the sleep to the next period boundary
IterationEnd ==
    /\ pc = "visit"
    /\ sensor \notin Instances
    /\ log' = log \o <<Ev("RELOAD_WDG", 0, 0), Ev("vTaskDelayUntil", 0, DelayUntilWait)>>
    /\ now' = now + DelayUntilWait
    /\ lastSysTime' = lastSysTime + Period
    /\ pc' = "loop"
    /\ UNCHANGED <<buildVars, sensor, sensors_test, tested, count, error, aux_mag_skip,
                   reset_counter, sensor_context, iter, prevError, temps, snap,
                   alarm, alarm_sets, queues, resets, cbVars, observed, built,
                   builtAtStart, produced>>

\* ------------------------------------------------------------- environment
\* a queue-fed driver delivers a sample (at most maxProduced in a run)
DriverEnqueueUpTo(maxProduced) ==
    /\ produced < maxProduced
    /\ \E i \in Instances :
        /\ ~sensors_list[i].is_polled
        /\ Len(queues[i]) < MaxQueue
        /\ \E sample \in Samples3(sensors_list[i].type) :
            queues' = [queues EXCEPT ![i] = Append(@, sample)]
    /\ produced' = produced + 1
    /\ UNCHANGED <<buildVars, taskVars, temps, snap, now, alarm, alarm_sets, resets,
                   cbVars, log, observed, built, builtAtStart>>

\* another module writes a settings object; the event is queued for the callback
SettingsChange ==
    /\ changes < MaxCfg
    /\ \E obj \in SettingsObjects, k \in 1..2 :
        /\ ValuesOf(obj)[k] # store[obj]
        /\ store' = UAVObjSet(store, obj, k)
    /\ cbPending' = cbPending + 1
    /\ changes' = changes + 1
    /\ UNCHANGED <<buildVars, taskVars, temps, snap, now, alarm, alarm_sets, queues,
                   resets, cbpc, log, observed, built, builtAtStart, produced>>

\* the event context runs the next step of settingsUpdatedCb
SettingsCbStep ==
    /\ cbpc > 0 \/ cbPending > 0
    /\ snap' = settingsUpdatedCbStep(cbpc + 1, snap, store)
    /\ cbpc' = IF cbpc + 1 = CbSteps THEN 0 ELSE cbpc + 1
    /\ cbPending' = IF cbpc = 0 THEN cbPending - 1 ELSE cbPending
    /\ built' = IF cbpc + 1 = CbSteps THEN built \cup {snap'} ELSE built
    /\ UNCHANGED <<buildVars, taskVars, temps, now, alarm, alarm_sets, queues,
                   resets, store, changes, log, observed, builtAtStart, produced>>

LoopHead == LoopHeadUpTo(MaxIter)

DriverEnqueue == DriverEnqueueUpTo(MaxProduced)

\* the task and the drivers, the settings left alone after start-up
Next ==
    \/ TaskStart
    \/ TestSensor
    \/ TestsDone
    \/ HaltDelay
    \/ LoopHead
    \/ SkipSensor
    \/ QueueReceive
    \/ QueueDrained
    \/ PollSensor
    \/ IterationEnd
    \/ DriverEnqueue

Spec == Init /\ [][Next]_vars

\* the task, the drivers and the settings callback in its own context
LoopHeadCb == LoopHeadUpTo(CbMaxIter)

DriverEnqueueCb == DriverEnqueueUpTo(CbMaxProduced)

NextCb ==
    \/ TaskStart
    \/ TestSensor
    \/ TestsDone
    \/ HaltDelay
    \/ LoopHeadCb
    \/ SkipSensor
    \/ QueueReceive
    \/ QueueDrained
    \/ PollSensor
    \/ IterationEnd
    \/ DriverEnqueueCb
    \/ SettingsChange
    \/ SettingsCbStep

SpecCb == Init /\ [][NextCb]_vars

\* ------------------------------------------------- aux-mag decimation runs
\* the task over many iterations, for a range of sensor rates
AuxSensorLists ==
    { << [type |-> "MAG", is_polled |-> TRUE],
         [type |-> "AUXMAG", is_polled |-> FALSE] >>,
      << [type |-> "AUXMAG", is_polled |-> TRUE],
         [type |-> "GYRO", is_polled |-> FALSE] >> }

InitAux == InitWith(AuxRates, AuxSensorLists, {StoreAt(1)})

LoopHeadAux == LoopHeadUpTo(AuxMaxIter)

DriverEnqueueAux == DriverEnqueueUpTo(AuxMaxProduced)

NextAux ==
    \/ TaskStart
    \/ TestSensor
    \/ TestsDone
    \/ LoopHeadAux
    \/ SkipSensor
    \/ QueueReceive
    \/ QueueDrained
    \/ PollSensor
    \/ IterationEnd
    \/ DriverEnqueueAux

SpecAux == InitAux /\ [][NextAux]_vars

\* ------------------------------------------- temperature estimator runs
\* The estimators over many update calls: boards with one inertial or baro
\* instance, whose handler runs once per Running iteration.
TempInputs == {Float(2500), Float(2520)}

TempSensorLists ==
    { << [type |-> "ACCEL", is_polled |-> FALSE] >>,
      << [type |-> "GYRO", is_polled |-> FALSE] >>,
      << [type |-> "GYRO_ACCEL", is_polled |-> FALSE] >>,
      << [type |-> "BARO", is_polled |-> TRUE] >> }

InitTemp == InitWith(MainRates, TempSensorLists, {StoreAt(1), StoreAt(2)})

\* SensorsTask up to the main loop, every self-test passing
TempTaskStart ==
    /\ pc = "start"
    /\ alarm' = "OK"
    /\ snap' = settingsUpdatedCb(snap, store)
    /\ built' = built \cup {snap'}
    /\ tested' = [i \in Instances |-> TRUE]
    /\ count' = Len(sensors_list) % U8
    /\ pc' = "loop"
    /\ UNCHANGED <<buildVars, sensor, sensors_test, error, aux_mag_skip,
                   reset_counter, lastSysTime, sensor_context, iter, prevError,
                   temps, now, alarm_sets, queues, resets, cbVars, log, observed,
                   builtAtStart, produced>>

\* the update calls of one iteration: those of the handlers of the instance,
\* with the mean temperature t of the iteration
TempCycle ==
    /\ pc = "loop"
    /\ \E t \in TempInputs :
        LET type == sensors_list[1].type
        IN  /\ log' = <<Ev("updateTempBias", 1, t)>>
            /\ temps' = [accel |-> IF HasAccel(type)
                                    THEN updateAccelTempBias(temps.accel, t, snap)
                                    ELSE temps.accel,
                          gyro |-> IF HasGyro(type)
                                   THEN updateGyroTempBias(temps.gyro, t, snap)
                                   ELSE temps.gyro,
                          baro |-> IF type = "BARO"
                                   THEN updateBaroTempBias(temps.baro, t, snap)
                                   ELSE temps.baro]
    /\ UNCHANGED <<buildVars, taskVars, snap, now, alarm, alarm_sets, queues,
                   resets, cbVars, observed, built, builtAtStart, produced>>

\* a settings object is written and settingsUpdatedCb runs to its end
TempSettingsUpdate ==
    /\ pc = "loop"
    /\ changes < MaxTempCfg
    /\ \E obj \in {"agcal", "revo"}, k \in 1..2 :
        /\ ValuesOf(obj)[k] # store[obj]
        /\ store' = UAVObjSet(store, obj, k)
    /\ snap' = settingsUpdatedCb(snap, store')
    /\ built' = built \cup {snap'}
    /\ changes' = changes + 1
    /\ UNCHANGED <<buildVars, taskVars, temps, now, alarm, alarm_sets, queues,
                   resets, cbPending, cbpc, log, observed, builtAtStart, produced>>

NextTemp ==
    \/ TempTaskStart
    \/ TempCycle
    \/ TempSettingsUpdate

SpecTemp == InitTemp /\ [][NextTemp]_vars

\* ------------------------------------------------- settings callback runs
\* settingsUpdatedCb over a range of calibration settings: extent spans at
\* and just above .1f, one coefficient of a channel at or just above 1e-9f
\* in magnitude, or none
ExtentChoices == { [min |-> 1000, max |-> 1000 + EXTENT_SPAN_MIN],
                   [min |-> 1000, max |-> 1001 + EXTENT_SPAN_MIN] }

NoAccelCoeff == [X |-> 0, Y |-> 0, Z |-> 0]

AccelCoeffChoices ==
    { NoAccelCoeff,
      [NoAccelCoeff EXCEPT !.X = COEFF_EPS + 1],
      [NoAccelCoeff EXCEPT !.Y = -(COEFF_EPS + 1)],
      [NoAccelCoeff EXCEPT !.Z = COEFF_EPS + 1],
      [NoAccelCoeff EXCEPT !.Z = COEFF_EPS] }

NoGyroCoeff == [X |-> 0, Y |-> 0, Z |-> 0, X2 |-> 0, Y2 |-> 0, Z2 |-> 0]

GyroCoeffChoices ==
    { NoGyroCoeff,
      [NoGyroCoeff EXCEPT !.X = COEFF_EPS + 1],
      [NoGyroCoeff EXCEPT !.Y = -(COEFF_EPS + 1)],
      [NoGyroCoeff EXCEPT !.Z = COEFF_EPS + 1],
      [NoGyroCoeff EXCEPT !.X2 = COEFF_EPS + 1],
      [NoGyroCoeff EXCEPT !.Y2 = COEFF_EPS + 1],
      [NoGyroCoeff EXCEPT !.Z2 = -(COEFF_EPS + 1)],
      [NoGyroCoeff EXCEPT !.X = COEFF_EPS] }

NoBaroCoeff == [a |-> 0, b |-> 0, c |-> 0, d |-> 0]

BaroCoeffChoices ==
    { NoBaroCoeff,
      [NoBaroCoeff EXCEPT !.a = COEFF_EPS + 1],
      [NoBaroCoeff EXCEPT !.b = -(COEFF_EPS + 1)],
      [NoBaroCoeff EXCEPT !.c = COEFF_EPS + 1],
      [NoBaroCoeff EXCEPT !.d = COEFF_EPS + 1],
      [NoBaroCoeff EXCEPT !.d = COEFF_EPS] }

AgcalChoices ==
    { [AgcalValues[2] EXCEPT !.temp_calibrated_extent = e,
                             !.accel_temp_coeff = a,
                             !.gyro_temp_coeff = g] :
        e \in ExtentChoices, a \in AccelCoeffChoices, g \in GyroCoeffChoices }

RevoChoices == { [poly |-> p, extent |-> e] : p \in BaroCoeffChoices, e \in ExtentChoices }

SettingsStores ==
    { [StoreAt(1) EXCEPT !.agcal = a, !.revo = r] : a \in AgcalChoices, r \in RevoChoices }

SettingsSensorLists == { << [type |-> "GYRO_ACCEL", is_polled |-> FALSE] >> }

InitSettings == InitWith(MainRates, SettingsSensorLists, SettingsStores)

\* AccelGyroSettings or RevoSettings is written and settingsUpdatedCb runs to
\* its end
SettingsRewrite ==
    /\ pc # "start"
    /\ changes < MaxSettingsCfg
    /\ \/ \E a \in AgcalChoices : a # store.agcal /\ store' = [store EXCEPT !.agcal = a]
       \/ \E r \in RevoChoices : r # store.revo /\ store' = [store EXCEPT !.revo = r]
    /\ snap' = settingsUpdatedCb(snap, store')
    /\ built' = built \cup {snap'}
    /\ changes' = changes + 1
    /\ UNCHANGED <<buildVars, taskVars, temps, now, alarm, alarm_sets, queues,
                   resets, cbPending, cbpc, log, observed, builtAtStart, produced>>

NextSettings ==
    \/ TaskStart
    \/ SettingsRewrite

SpecSettings == InitSettings /\ [][NextSettings]_vars

\* --------------------------------------------------- extent clamping runs
\* the estimators with calibration enabled and the calibrated extent lying
\* above, around or below the temperatures fed (TempInputs)
ClampExtents == << [min |-> 2600, max |-> 2800],
                   [min |-> 2000, max |-> 3000],
                   [min |-> 2000, max |-> 2400] >>

ClampStores ==
    { [StoreAt(2) EXCEPT !.agcal.temp_calibrated_extent = ClampExtents[k],
                         !.revo = [poly |-> [a |-> 50, b |-> 20, c |-> 1, d |-> 0],
                                   extent |-> ClampExtents[k]]] : k \in 1..3 }

InitClamp == InitWith(MainRates, TempSensorLists, ClampStores)

NextClamp ==
    \/ TempTaskStart
    \/ TempCycle

SpecClamp == InitClamp /\ [][NextClamp]_vars

\* --------------------------------------------------------------- progress
\* a step of SensorsTask
TaskStep ==
    \/ TaskStart
    \/ TestSensor
    \/ TestsDone
    \/ HaltDelay
    \/ LoopHead
    \/ SkipSensor
    \/ QueueReceive
    \/ QueueDrained
    \/ PollSensor
    \/ IterationEnd

\* The task is scheduled whenever it can run, and no call it makes blocks
\* for ever. The drivers are under no obligation; they enqueue at the rate
\* of their sensor, far below the rate at which the task empties a queue, so
\* a receive that can find the queue empty again and again does find it
\* empty.
InitLive == InitWith(MainRates, SensorLists, {StoreAt(1)})

SpecLive == InitLive /\ [][Next]_vars /\ WF_vars(TaskStep) /\ SF_vars(QueueDrained)

\* ------------------------------------------------------- scheduling runs
\* The task with the tick count advancing while it works: the self-tests and
\* the processing of an iteration take less than a period or more than one.
\* A board with one queue-fed accelerometer, the instance the task waits on.
TimeSensorLists ==
    { << [type |-> "ACCEL", is_polled |-> FALSE] >> }

\* ticks that pass in one go while the task is busy
BusyTicks == {4, 13}

InitTime == InitWith(MainRates, TimeSensorLists, {StoreAt(1)})

\* xTaskGetTickCount advances while the task tests or processes its sensors
TicksPass ==
    /\ pc \in {"test", "visit"}
    /\ \E d \in BusyTicks :
        /\ now + d - lastSysTime <= MaxBusy
        /\ now' = now + d
    /\ UNCHANGED <<buildVars, taskVars, temps, snap, alarm, alarm_sets, queues,
                   resets, cbVars, log, observed, built, builtAtStart, produced>>

NextTime ==
    \/ TaskStart
    \/ TestSensor
    \/ TestsDone
    \/ HaltDelay
    \/ LoopHead
    \/ QueueReceive
    \/ QueueDrained
    \/ IterationEnd
    \/ DriverEnqueue
    \/ TicksPass

SpecTime == InitTime /\ [][NextTime]_vars

\* ================================================================ properties
\* events of the log that read a queue, poll, fetch from or reset a sensor, or
\* publish a sample
SensorEvents == {"xQueueReceive", "PIOS_SENSORS_Poll", "PIOS_SENSOR_Fetch",
                 "PIOS_SENSOR_Reset", "processSamples3d", "processSamples1d",
                 "AccelSensorSet", "GyroSensorSet", "MagSensorSet",
                 "AuxMagSensorSet", "BaroSensorSet"}

EventsNamed(name) == {k \in DOMAIN log : log[k].ev = name}

\* every listed instance was tested and passed
AllPassed ==
    /\ Len(tested) = Len(sensors_list)
    /\ \A i \in DOMAIN tested : tested[i]

Running == pc \in {"loop", "visit"}

\* an iteration of the Running loop has just ended
IterationComplete == pc = "loop" /\ iter > 0

\* C1: the task is in the Running loop only if every listed instance passed
\* its self-test, and it is halted only if one failed; once halted the alarm
\* is critical and was set exactly once, the task stays halted, and no queue
\* is read, no sensor polled or reset and no sample published, then or later.
C1_SelfTestGate ==
    /\ [](Running => AllPassed)
    /\ [](pc = "fault" =>
            /\ Len(tested) = Len(sensors_list)
            /\ ~AllPassed
            /\ alarm = "CRITICAL"
            /\ alarm_sets = 1
            /\ Cardinality(EventsNamed("AlarmsSet")) = 1
            /\ iter = 0
            /\ \A k \in DOMAIN log : log[k].ev \notin SensorEvents
            /\ \A i \in Instances : resets[i] = 0)
    /\ [][pc = "fault" =>
            /\ pc' = "fault"
            /\ alarm' = alarm
            /\ alarm_sets' = alarm_sets
            /\ log' = log
            /\ resets' = resets
            /\ temps' = temps
            /\ \A i \in Instances : Len(queues'[i]) >= Len(queues[i])]_vars

\* the task is halted after a failed self-test of one instance among passing
\* ones, time has passed and a driver has queued a sample that stays unread
C1_Witness ==
    /\ pc = "fault"
    /\ now >= 10
    /\ \E i \in DOMAIN tested : tested[i]
    /\ \E i \in Instances : queues[i] # <<>>

\* the queue-fed, accelerometer-carrying instance under the cursor has an
\* empty queue and nothing accumulated
StallAt ==
    /\ pc = "visit"
    /\ sensor \in Instances
    /\ ~sensors_list[sensor].is_polled
    /\ sensors_list[sensor].type \in {"ACCEL", "GYRO_ACCEL"}
    /\ queues[sensor] = <<>>
    /\ sensor_context.count = 0

\* C2: when the traversal leaves a queue-fed primary instance that gave no
\* sample within its one-period wait, exactly one reset is requested for it,
\* the reset counter grows by one and the error flag is set; nothing else
\* requests a reset or sets the flag; the next iteration, before it traverses
\* the sensors, waits one extra period, raises the alarm and clears the flag.
C2_StallHandling ==
    /\ [][(StallAt /\ sensor' # sensor) =>
            /\ resets' = [resets EXCEPT ![sensor] = @ + 1]
            /\ reset_counter' = reset_counter + 1
            /\ error'
            /\ now' = now + Period
            /\ log' = log \o <<Ev("xQueueReceive", sensor, Period),
                               Ev("PIOS_SENSOR_Reset", sensor, 0)>>]_vars
    /\ [][(resets' # resets \/ reset_counter' # reset_counter \/ (error' /\ ~error)) =>
            (StallAt /\ sensor' # sensor)]_vars
    /\ [][(pc = "loop" /\ pc' = "visit" /\ error) =>
            /\ ~error'
            /\ now' = now + Period
            /\ alarm' # "OK"
            /\ alarm_sets' = alarm_sets + 1
            /\ sensor' = 1
            /\ Len(log') = 3
            /\ log'[2] = Ev("vTaskDelayUntil", 0, Period)
            /\ log'[3].ev = "AlarmsSet"]_vars
    /\ [][(pc = "loop" /\ pc' = "visit" /\ ~error) =>
            /\ now' = now
            /\ alarm_sets' = alarm_sets
            /\ ~error']_vars

\* the second iteration after a stall in the first: one reset requested, the
\* extra period waited, the alarm raised and the flag cleared
C2_Witness ==
    /\ pc = "visit"
    /\ iter = 2
    /\ prevError
    /\ ~error
    /\ reset_counter = 1
    /\ \E i \in Instances : resets[i] = 1
    /\ alarm_sets = 1
    /\ now >= 2 * Period

ViewOf(h, s) ==
    CASE h = "handleAccel" -> AccelView(s)
      [] h = "handleGyro" -> GyroView(s)
      [] h = "handleMag" -> MagView(s)
      [] h = "handleAuxMag" -> AuxMagView(s)
      [] h = "handleBaro" -> BaroView(s)

\* C4 as stated: what a handler call read is what one completed rebuild left.
C4_NoTornRead ==
    \A k \in DOMAIN observed :
        \E b \in built : observed[k] = ViewOf(observed[k].h, b)

\* C5 as stated: the handler calls of one iteration all read what one rebuild,
\* completed by the start of the traversal, left.
C5_OneSnapshotPerIteration ==
    observed # <<>> =>
        \E b \in builtAtStart :
            \A k \in DOMAIN observed : observed[k] = ViewOf(observed[k].h, b)

\* the RELOAD_WDG events of the log are exactly one, after every sensor event
WdgOnceAfterSensors ==
    /\ Cardinality(EventsNamed("RELOAD_WDG")) = 1
    /\ \A w \in EventsNamed("RELOAD_WDG") :
        \A k \in DOMAIN log : log[k].ev \in SensorEvents => k < w

\* C6 as stated: every iteration services the watchdog exactly once, after
\* its sensors.
C6_WatchdogOncePerIteration == IterationComplete => WdgOnceAfterSensors

\* C6: every iteration services the watchdog after all its instances, just
\* before its closing sleep; an iteration that follows a stall services it
\* once more, first thing, before the extra wait. Twice after a stall, once
\* otherwise, and never during the traversal.
C6_WatchdogPerIteration ==
    /\ IterationComplete =>
        /\ sensor = Len(sensors_list) + 1
        /\ Len(log) >= 2
        /\ log[Len(log) - 1].ev = "RELOAD_WDG"
        /\ log[Len(log)].ev = "vTaskDelayUntil"
        /\ \A k \in DOMAIN log : log[k].ev \in SensorEvents => k < Len(log) - 1
        /\ EventsNamed("RELOAD_WDG") =
                IF prevError THEN {1, Len(log) - 1} ELSE {Len(log) - 1}
    /\ pc = "visit" =>
        EventsNamed("RELOAD_WDG") = IF prevError THEN {1} ELSE {}

\* an iteration that followed a stall has ended, it processed samples and
\* serviced the watchdog twice
C6_Witness ==
    /\ IterationComplete
    /\ prevError
    /\ EventsNamed("processSamples3d") # {}
    /\ Cardinality(EventsNamed("RELOAD_WDG")) = 2

\* C7: processSamples3d is never called with a context whose count is 0.
C7_MeanNeverEmpty ==
    \A k \in EventsNamed("processSamples3d") : log[k].arg >= 1

\* an iteration with a stalled primary instance, a queue-fed instance that is
\* not primary and gave nothing, and an instance whose samples were processed
C7_Witness ==
    /\ EventsNamed("PIOS_SENSOR_Reset") # {}
    /\ EventsNamed("processSamples3d") # {}
    /\ \E k \in EventsNamed("xQueueReceive") :
        /\ ~HasAccel(sensors_list[log[k].sensor].type)
        /\ \A j \in DOMAIN log : j > k => log[j].sensor # log[k].sensor
        /\ sensor > log[k].sensor
        /\ k = Len(log) \/ log[k + 1].ev # "processSamples3d"
        /\ k = 1 \/ log[k - 1].sensor # log[k].sensor

\* ceil(max(rate, 76) / 75)
CeilK(rate) ==
    LET m == IF rate > 76 THEN rate ELSE 76
    IN  CHOOSE k \in 1..m : 75 * k >= m /\ 75 * (k - 1) < m

\* the traversal read the queue of instance i or polled it
Visited(i) ==
    \E k \in DOMAIN log :
        log[k].sensor = i /\ log[k].ev \in {"xQueueReceive", "PIOS_SENSORS_Poll"}

\* C8: an aux-mag instance is processed in the iterations whose number is a
\* multiple of K = ceil(max(rate, 76) / 75) and in no other, which is one of
\* every K consecutive iterations; K >= 2, and K = 7 at 500 Hz; an instance
\* of any other type is processed in every iteration.
C8_AuxMagDecimation ==
    /\ CeilK(PIOS_SENSOR_RATE) >= 2
    /\ PIOS_SENSOR_RATE = 500 => CeilK(PIOS_SENSOR_RATE) = 7
    /\ IterationComplete =>
        \A i \in Instances :
            IF sensors_list[i].type = "AUXMAG"
            THEN Visited(i) <=> (iter % CeilK(PIOS_SENSOR_RATE) = 0)
            ELSE Visited(i)

\* at 500 Hz, the fourteenth iteration has processed the aux-mag instance
C8_Witness ==
    /\ IterationComplete
    /\ PIOS_SENSOR_RATE = 500
    /\ iter = 14
    /\ \E i \in Instances : sensors_list[i].type = "AUXMAG" /\ Visited(i)

\* C9: during a traversal, and until the next iteration starts, the alarm is
\* raised if and only if the iteration before ended with the error flag set,
\* and it is clear if and only if it did not.
C9_AlarmTracksStall ==
    /\ []((pc = "visit" \/ IterationComplete) =>
            /\ alarm # "OK" <=> prevError
            /\ alarm = "OK" <=> ~prevError)
    /\ [][(pc = "loop" /\ pc' = "visit") => (prevError' = error)]_vars

\* the third iteration runs with the alarm clear after a stall in the first
\* raised it for the second
C9_Witness ==
    /\ pc = "visit"
    /\ iter = 3
    /\ alarm = "OK"
    /\ ~prevError
    /\ ~error
    /\ reset_counter = 1
    /\ alarm_sets = 1

Channels == {"accel", "gyro", "baro"}

\* N of the channel
CalibInterval(ch) == IF ch = "baro" THEN 10 ELSE 30

\* C10: on every update call of a channel, the bias is recomputed only if
\* the countdown was zero and is left as it was otherwise; while calibration
\* stays enabled, a recompute comes exactly N calls after the one before (not
\* sooner, not later), N = 30 for accel and gyro and 10 for baro.
C10_BiasRecomputeCadence ==
    [][\A ch \in Channels :
        temps'[ch] # temps[ch] =>
            LET a == temps[ch]
                b == temps'[ch]
                N == CalibInterval(ch)
            IN  /\ b.since = 0 => a.count = 0
                /\ b.since # 0 => b.bias = a.bias
                /\ (a.since # -1 /\ b.since = 0) => a.since = N - 1
                /\ (a.since = N - 1 /\ b.since # -1) => b.since = 0
                /\ a.since < N]_vars

\* calibration has been enabled since the last recompute, N - 1 calls ago;
\* the bias is still the one computed then although the filtered temperature
\* has moved, and the next call recomputes
C10_Witness ==
    /\ snap.accel_temp_calibrated
    /\ temps.accel.since = CalibInterval("accel") - 1
    /\ temps.accel.count = 0
    /\ ~temps.accel.temperature.nan
    /\ temps.accel.bias[1] # snap.agcal.accel_temp_coeff.X * temps.accel.temperature.v

\* the extent span exceeds 0.1 and some coefficient of cs exceeds 1e-9 in
\* magnitude (spans in 1/100 degree, coefficients in units of 1e-10)
Calibrated(extent, cs) ==
    /\ extent.max - extent.min > 10
    /\ \E c \in cs : c > 10 \/ c < -10

\* C11 as stated: once settingsUpdatedCb has run, each flag is true exactly
\* when the span exceeds 0.1 and one of all the coefficients of its channel
\* exceeds 1e-9 in magnitude: accel X, Y, Z; gyro X, Y, Z, X2, Y2, Z2; baro
\* a, b, c, d.
C11_FlagsOverAllCoefficients ==
    (pc # "start" /\ cbpc = 0) =>
        LET ag == snap.agcal
            a == ag.accel_temp_coeff
            g == ag.gyro_temp_coeff
            p == snap.baroCorrection
        IN  /\ snap.accel_temp_calibrated <=>
                    Calibrated(ag.temp_calibrated_extent, {a.X, a.Y, a.Z})
            /\ snap.gyro_temp_calibrated <=>
                    Calibrated(ag.temp_calibrated_extent, {g.X, g.Y, g.Z, g.X2, g.Y2, g.Z2})
            /\ snap.baro_temp_correction_enabled <=>
                    Calibrated(snap.baroCorrectionExtent, {p.a, p.b, p.c, p.d})

\* the handleBaro call at position k of the log published a record
BaroPublished(k) == k < Len(log) /\ log[k + 1].ev = "BaroSensorSet"

\* C12 as stated: a handleBaro call whose corrected pressure is zero or
\* negative computes a NaN altitude and publishes nothing; a call publishes
\* exactly when its altitude is not NaN.
C12_NoPublishAtOrBelowZero ==
    \A k \in EventsNamed("handleBaro") :
        /\ log[k].arg.pressure <= 0 => (log[k].arg.altitude.nan /\ ~BaroPublished(k))
        /\ BaroPublished(k) <=> ~log[k].arg.altitude.nan

\* t clamped into [extent.min, extent.max]
ClampInto(t, extent) ==
    IF t < extent.min THEN extent.min
    ELSE IF t > extent.max THEN extent.max
    ELSE t

AccelPoly(c, t) == <<c.X * t, c.Y * t, c.Z * t>>

GyroPoly(c, t) == <<(c.X + c.X2 * t) * t, (c.Y + c.Y2 * t) * t, (c.Z + c.Z2 * t) * t>>

BaroPoly(p, t) == p.a + ((p.d * t + p.c) * t + p.b) * t

\* C13: an update call that recomputes the bias leaves the polynomial of its
\* channel evaluated at the new filtered temperature clamped into the
\* calibrated extent: at min below it, at max above it, at the filtered
\* temperature itself inside it.
C13_BiasAtClampedTemperature ==
    [][/\ (temps'.accel # temps.accel /\ temps'.accel.since = 0) =>
            temps'.accel.bias =
                AccelPoly(snap.agcal.accel_temp_coeff,
                          ClampInto(temps'.accel.temperature.v,
                                    snap.agcal.temp_calibrated_extent))
       /\ (temps'.gyro # temps.gyro /\ temps'.gyro.since = 0) =>
            temps'.gyro.bias =
                GyroPoly(snap.agcal.gyro_temp_coeff,
                         ClampInto(temps'.gyro.temperature.v,
                                   snap.agcal.temp_calibrated_extent))
       /\ (temps'.baro # temps.baro /\ temps'.baro.since = 0) =>
            temps'.baro.bias =
                BaroPoly(snap.baroCorrection,
                         ClampInto(temps'.baro.temperature.v, snap.baroCorrectionExtent))]_vars

\* the gyro bias was just recomputed, for the second time at least, with the
\* filtered temperature above the extent: it is the polynomial at max and not
\* the polynomial at the filtered temperature
C13_Witness ==
    /\ temps.gyro.since = 0
    /\ temps.gyro.temperature.v > snap.agcal.temp_calibrated_extent.max
    /\ temps.gyro.temperature.v # 2500
    /\ temps.gyro.bias = GyroPoly(snap.agcal.gyro_temp_coeff,
                                  snap.agcal.temp_calibrated_extent.max)
    /\ temps.gyro.bias # GyroPoly(snap.agcal.gyro_temp_coeff, temps.gyro.temperature.v)

RECURSIVE SumVec(_, _, _)
\* sum over the raw samples of axis a of vector i
SumVec(raw, i, a) ==
    IF raw = <<>> THEN 0 ELSE raw[1].sample[i][a] + SumVec(Tail(raw), i, a)

RECURSIVE SumTemperature(_)
\* sum over the raw samples of the raw temperature
SumTemperature(raw) ==
    IF raw = <<>> THEN 0 ELSE raw[1].temperature + SumTemperature(Tail(raw))

HandlerCalls == {"handleAccel", "handleGyro", "handleMag", "handleAuxMag"}

\* the handler call at j belongs to the processSamples3d call whose context
\* is logged at k
CallOf(k, j) ==
    /\ j > k
    /\ log[j].ev \in HandlerCalls
    /\ \A m \in (k + 1)..j : log[m].ev # "sensor_context"

\* C14: every handler call of a processSamples3d call gets, per axis, the
\* sum of that axis over the raw samples folded in since the last clear,
\* divided by their number, times the scale of its vector (vector 1 and
\* scale 1 for the gyro of a combined instance, vector 0 and scale 0
\* otherwise), and as temperature the sum of the raw temperatures divided by
\* their number (1/100 degree to degree); the number of samples is count >= 1.
C14_MeanOfFoldedSamples ==
    \A k \in EventsNamed("sensor_context") :
        LET raw == log[k].arg.ctx.raw
            n == Len(raw)
        IN  /\ n >= 1
            /\ n = log[k].arg.ctx.count
            /\ \E j \in DOMAIN log : CallOf(k, j)
            /\ \A j \in DOMAIN log :
                CallOf(k, j) =>
                    LET i == IF log[j].ev = "handleGyro" /\ log[k].arg.type = "GYRO_ACCEL"
                             THEN 2 ELSE 1
                    IN  /\ log[j].arg.samples =
                                [a \in 1..3 |-> [num |-> SumVec(raw, i, a), den |-> n,
                                                 scale |-> i]]
                        /\ log[j].ev # "handleAuxMag" =>
                                log[j].arg.temperature = Float(SumTemperature(raw) \div n)

\* a combined gyro+accel instance was processed with two different samples
\* in its context, and the gyro handler was called for it
C14_Witness ==
    \E k \in EventsNamed("sensor_context") :
        /\ log[k].arg.type = "GYRO_ACCEL"
        /\ Len(log[k].arg.ctx.raw) = 2
        /\ log[k].arg.ctx.raw[1] # log[k].arg.ctx.raw[2]
        /\ \E j \in DOMAIN log : CallOf(k, j) /\ log[j].ev = "handleGyro"

\* C15: an update call that finds the filtered temperature unset (NaN)
\* leaves it equal to the raw temperature it was given, and an update call
\* that is given the temperature the filter already holds leaves it there;
\* so the first call gives the first raw temperature, and a constant input
\* gives that constant after every call.
C15_SeedAndFixedPoint ==
    [][\A ch \in Channels :
        temps'[ch] # temps[ch] =>
            LET t == log'[1].arg
            IN  /\ temps[ch].temperature.nan => temps'[ch].temperature = t
                /\ temps[ch].temperature = t => temps'[ch].temperature = t
                /\ ~temps'[ch].temperature.nan]_vars

\* the gyro filter after two calls given the same temperature, which it holds
C15_Witness ==
    /\ pc = "loop"
    /\ ~snap.gyro_temp_calibrated
    /\ temps.gyro.count = 254
    /\ log # <<>>
    /\ temps.gyro.temperature = log[1].arg

\* both vector sums, the temperature sum and count are zero
AllZero(ctx) ==
    /\ ctx.accum = << <<0, 0, 0>>, <<0, 0, 0>> >>
    /\ ctx.temperature = 0
    /\ ctx.count = 0

\* the receives of this iteration that took a sample from the queue of i
\* (the one that found it empty is logged as the drain ends)
Received(i, upto) ==
    {k \in 1..upto : log[k].ev = "xQueueReceive" /\ log[k].sensor = i}

\* C16: between instances, and before and after a traversal, the context is
\* all zero; while an instance is being drained it holds exactly the samples
\* received from that instance's queue in this iteration, count being their
\* number and the sums their sums; and the context a processSamples3d call
\* gets holds the samples of the instance it is called for and no other.
C16_ContextHoldsOneInstance ==
    /\ Running =>
        /\ sensor_context.count = Len(sensor_context.raw)
        /\ sensor_context.temperature = SumTemperature(sensor_context.raw)
        /\ \A i \in 1..2, a \in 1..3 :
            i <= (IF sensor_context.raw = <<>> THEN 0 ELSE sensor_context.raw[1].count) =>
                sensor_context.accum[i][a] = SumVec(sensor_context.raw, i, a)
    /\ (pc = "loop" \/ (pc = "visit" /\ sensor \notin Instances)) =>
        AllZero(sensor_context)
    /\ (pc = "visit" /\ sensor \in Instances) =>
        /\ sensor_context.count = Cardinality(Received(sensor, Len(log)))
        /\ sensor_context.count = 0 => AllZero(sensor_context)
    /\ \A k \in EventsNamed("sensor_context") :
        /\ k >= 3
        /\ log[k - 2].ev \in {"xQueueReceive", "PIOS_SENSOR_Fetch"}
        /\ Len(log[k].arg.ctx.raw) =
                IF log[k - 2].ev = "PIOS_SENSOR_Fetch" THEN 1
                ELSE Cardinality(Received(log[k - 2].sensor, k)) - 1

\* the traversal is about to start on its second instance with an all-zero
\* context, after the first was processed with two samples in its context
C16_Witness ==
    /\ pc = "visit"
    /\ sensor = 2
    /\ AllZero(sensor_context)
    /\ \E k \in EventsNamed("sensor_context") : log[k].arg.ctx.count = 2

\* C17: a receive is issued on queue-fed instances only; its timeout is one
\* period if the instance carries an accelerometer and no earlier receive of
\* this iteration took a sample from its queue, and zero in every other
\* case; so at most one receive per instance and iteration can block.
C17_ReceiveTimeouts ==
    /\ Period > 0
    /\ \A k \in EventsNamed("xQueueReceive") :
        LET i == log[k].sensor
        IN  /\ ~sensors_list[i].is_polled
            /\ log[k].arg =
                IF /\ sensors_list[i].type \in {"ACCEL", "GYRO_ACCEL"}
                   /\ Received(i, k - 1) = {}
                THEN Period ELSE 0
    /\ \A i \in Instances :
        Cardinality({k \in Received(i, Len(log)) : log[k].arg # 0}) <= 1

\* an accelerometer instance was drained of two samples: a receive with the
\* period as timeout and two with none; a gyro-only instance was read too
C17_Witness ==
    /\ \E i \in Instances :
        /\ sensors_list[i].type = "ACCEL"
        /\ Cardinality(Received(i, Len(log))) = 3
        /\ Cardinality({k \in Received(i, Len(log)) : log[k].arg = 0}) = 2
    /\ \E i \in Instances :
        /\ sensors_list[i].type = "GYRO"
        /\ Received(i, Len(log)) # {}

\* what processSamples3d and processSamples1d leave in the log
ProcessingEvents ==
    {"processSamples3d", "sensor_context", "processSamples1d", "handleAccel",
     "handleGyro", "handleMag", "handleAuxMag", "handleBaro", "AccelSensorSet",
     "GyroSensorSet", "MagSensorSet", "AuxMagSensorSet", "BaroSensorSet"}

\* the position of the last event named name of instance i (0: there is none)
LastOf(name, i) ==
    LET ks == {k \in EventsNamed(name) : log[k].sensor = i}
    IN  IF ks = {} THEN 0 ELSE CHOOSE k \in ks : \A m \in ks : m <= k

\* the positions of the processing events that follow position k directly
ProcessingAfter(k) ==
    {j \in DOMAIN log : j > k /\ \A m \in (k + 1)..j : log[m].ev \in ProcessingEvents}

\* the names of the events at the positions after k, in order
NamesAfter(k) == [m \in 1..Cardinality(ProcessingAfter(k)) |-> log[k + m].ev]

\* the handlers of a 3-axis type and what each publishes, in dispatch order
DispatchOf(type) ==
    IF type = "ACCEL" THEN <<"handleAccel", "AccelSensorSet">>
    ELSE IF type = "GYRO" THEN <<"handleGyro", "GyroSensorSet">>
    ELSE IF type = "GYRO_ACCEL"
    THEN <<"handleAccel", "AccelSensorSet", "handleGyro", "GyroSensorSet">>
    ELSE IF type = "MAG" THEN <<"handleMag", "MagSensorSet">>
    ELSE <<"handleAuxMag", "AuxMagSensorSet">>

\* the handler call at j was given the mean of vector v (0 or 1) of ctx,
\* scaled by scale v
OnVector(j, ctx, v) ==
    log[j].arg.samples =
        [a \in 1..3 |-> [num |-> ctx.accum[v + 1][a], den |-> ctx.count, scale |-> v + 1]]

\* C18: for a queue-fed instance the traversal has passed, the receive that
\* found its queue empty is followed by the handlers of its type, each once
\* and in order, if a sample was drained before, and by no handler and no
\* publication if none was; the gyro handler of a combined instance gets
\* vector 1 and scale 1, every other handler vector 0 and scale 0.
C18_DispatchByType ==
    pc = "visit" =>
        \A i \in Instances :
            (i < sensor /\ ~sensors_list[i].is_polled /\ Received(i, Len(log)) # {}) =>
                LET type == sensors_list[i].type
                    last == LastOf("xQueueReceive", i)
                    drained == Cardinality(Received(i, Len(log))) - 1
                    names == NamesAfter(last)
                IN  IF drained = 0 THEN names = <<>>
                    ELSE /\ names = <<"processSamples3d", "sensor_context">> \o DispatchOf(type)
                         /\ log[last + 2].arg.ctx.count = drained
                         /\ log[last + 2].arg.type = type
                         /\ OnVector(last + 3, log[last + 2].arg.ctx, 0)
                         /\ type = "GYRO_ACCEL" =>
                                OnVector(last + 5, log[last + 2].arg.ctx, 1)

\* a combined instance was drained of two samples and both of its handlers
\* ran, the accel handler first
C18_Witness ==
    /\ pc = "visit"
    /\ sensor = 2
    /\ sensors_list[1].type = "GYRO_ACCEL"
    /\ Cardinality(Received(1, Len(log))) = 3
    /\ NamesAfter(LastOf("xQueueReceive", 1)) =
            <<"processSamples3d", "sensor_context", "handleAccel", "AccelSensorSet",
              "handleGyro", "GyroSensorSet">>

\* the positions of the events named name of instance i
EventsOf(name, i) == {k \in EventsNamed(name) : log[k].sensor = i}

CalibEnabled(s, ch) ==
    IF ch = "accel" THEN s.accel_temp_calibrated
    ELSE IF ch = "gyro" THEN s.gyro_temp_calibrated
    ELSE s.baro_temp_correction_enabled

\* C20: every update call of a channel ends by taking one off the channel's
\* countdown (an 8-bit unsigned counter: one off zero is 255), with
\* calibration enabled or not; the value it takes one off is N (30 for accel
\* and gyro, 10 for baro) only if the call found the countdown at zero and
\* calibration enabled, and the value the call found otherwise; and a call
\* made while calibration is disabled leaves the bias as it was.
C20_CountdownTicksEveryCall ==
    [][\A ch \in Channels :
        temps'[ch] # temps[ch] =>
            LET a == temps[ch]
                b == temps'[ch]
                N == CalibInterval(ch)
                reload == CalibEnabled(snap, ch) /\ a.count = 0
            IN  /\ b.count = ((IF reload THEN N ELSE a.count) - 1) % 256
                /\ b.count # (a.count - 1) % 256 => reload
                /\ ~reload => (a.count = 0 \/ b.count = a.count - 1)
                /\ ~CalibEnabled(snap, ch) => b.bias = a.bias]_vars

\* the gyro calibration is disabled; the countdown has gone from zero round
\* to 255 and on, and the bias is still the initial one
C20_Witness ==
    /\ pc = "loop"
    /\ ~CalibEnabled(snap, "gyro")
    /\ temps.gyro.count = 250
    /\ ~temps.gyro.temperature.nan
    /\ temps.gyro.bias = Zero3

\* the tick counts at which the task may enter the Running loop
EntryTicks == 0..MaxBusy

\* the iterations of the Running loop that have reached their sleep
Completed == IF pc = "visit" THEN iter - 1 ELSE iter

\* C21: the tick count is captured as time base when the Running loop is
\* entered; as long as no stall has occurred, the time base after n
\* iterations (the wake-up target of the n-th) is that tick count plus n
\* periods, whatever the tick count has become in between, and the sleep
\* ends at the target or at once if the target is past; the iteration that
\* follows a stall takes the current tick as time base, waits one period
\* from it and leaves the time base at the end of that wait.
C21_AbsoluteSleep ==
    /\ \A t0 \in EntryTicks :
        []((pc = "loop" /\ iter = 0 /\ now = t0) =>
            /\ lastSysTime = t0
            /\ []((Running /\ reset_counter = 0) =>
                    lastSysTime = t0 + Completed * Period))
    /\ [][(pc = "visit" /\ pc' = "loop") =>
            /\ lastSysTime' = lastSysTime + Period
            /\ now' = IF now < lastSysTime' THEN lastSysTime' ELSE now]_vars
    /\ [][(pc = "loop" /\ pc' = "visit") =>
            IF error
            THEN /\ now' = now + Period
                 /\ lastSysTime' = now'
            ELSE /\ now' = now
                 /\ lastSysTime' = lastSysTime]_vars

\* two iterations without a stall have ended; the task entered the loop at a
\* tick that is no multiple of the period, the second iteration overran its
\* period, and the time base is two periods after the entry all the same
C21_Witness ==
    /\ pc = "loop"
    /\ iter = 2
    /\ reset_counter = 0
    /\ lastSysTime = 4 + 2 * Period
    /\ now > lastSysTime

\* C22: the period in ticks is the tick count nearest to 1000 / sensor rate
\* milliseconds, at most half a tick away from it (the code converts the
\* quotient to an unsigned integer, which rounds it down)
C22_PeriodRoundedToNearest ==
    LET q == PIOS_SENSOR_RATE * portTICK_RATE_MS
    IN  /\ 2 * Period * q - q <= 2000
        /\ 2000 < 2 * Period * q + q

\* the iteration has ended with the watchdog serviced and the sleep done
WdgServicedAndSlept ==
    /\ pc = "loop"
    /\ Len(log) >= 2
    /\ log[Len(log) - 1].ev = "RELOAD_WDG"
    /\ log[Len(log)].ev = "vTaskDelayUntil"

C24_WrappedCountdownDelaysFirstRecompute ==
    /\ [](\A ch \in Channels : temps[ch].count \in 0..255)
    /\ [][\A ch \in Channels :
            temps'[ch] # temps[ch] =>
                LET a == temps[ch]
                    b == temps'[ch]
                    N == CalibInterval(ch)
                    enabled == CalibEnabled(snap, ch)
                    recomputed == b.since = 0
                IN  /\ (~enabled /\ a.count = 0) => (b.count = 255 /\ ~recomputed)
                    /\ (enabled /\ a.since = -1) =>
                            /\ recomputed <=> a.count = 0
                            /\ ~recomputed => (b.count = a.count - 1 /\ b.bias = a.bias)
                            /\ recomputed => b.count = N - 1
                    /\ (enabled /\ a.since # -1) =>
                            /\ recomputed <=> a.since = N - 1
                            /\ a.count = N - 1 - a.since]_vars

\* calibration of the accelerometer was enabled by a settings update while
\* the countdown stood far above N; no recompute has happened since and the
\* bias is still the initial one
C24_Witness ==
    /\ CalibEnabled(snap, "accel")
    /\ temps.accel.since = -1
    /\ temps.accel.count = 200
    /\ ~temps.accel.temperature.nan
    /\ temps.accel.bias = Zero3

\* the view a handler read holds a rotation matrix or a transform that a
\* rebuild wrote, not the static initialiser
ViewRebuilt(o) ==
    CASE o.h \in {"handleAccel", "handleGyro"} -> ~o.view[4].zero
      [] o.h \in {"handleMag", "handleAuxMag"} -> ~o.view[2].identity
      [] OTHER -> TRUE

\* C25: before the task's first rebuild nothing has been tested and no
\* handler has run; from the self-test on a complete rebuild has finished,
\* and the rotation matrix and the two transforms are those a rebuild wrote;
\* every handler call reads a rotation matrix or transform written by a
\* rebuild, never the initial one, with or without a settings notification.
C25_RebuildBeforeUse ==
    /\ pc = "start" =>
        /\ tested = <<>>
        /\ observed = <<>>
        /\ \A k \in DOMAIN log : log[k].ev \notin ProcessingEvents
    /\ pc # "start" =>
        /\ built # {}
        /\ ~snap.R.zero
        /\ ~snap.mag_transform.identity
        /\ ~snap.auxmag_transform.identity
    /\ \A k \in DOMAIN observed : ViewRebuilt(observed[k])

\* no settings object was ever written and no notification is pending; the
\* accel handler has run and read the rotation matrix the task's own rebuild
\* left
C25_Witness ==
    /\ changes = 0
    /\ cbPending = 0
    /\ cbpc = 0
    /\ Cardinality(built) = 1
    /\ \E k \in DOMAIN observed :
        /\ observed[k].h = "handleAccel"
        /\ ~observed[k].view[4].zero
        /\ observed[k].view[4] = snap.R

====
